---- MODULE Spec2Model ----
(***************************************************************************)
(* A model of the code editor core of solaire: the debounced asynchronous  *)
(* completion pipeline of CodeEditor (code_editor/code_editor.py), its     *)
(* popup and worker (code_editor/completion.py), the fold analyzer and    *)
(* fold toggling, and the caches of the minimap (minimap.py).              *)
(*                                                                         *)
(* Text is a sequence of one-character strings; a document is a non-empty  *)
(* sequence of lines (QTextDocument blocks).  The caret is (caretLine,     *)
(* caretCol) with caretLine the 0-based block number; anchorCol is the     *)
(* selection anchor on the caret's line (no selection: anchorCol =         *)
(* caretCol).                                                              *)
(***************************************************************************)
EXTENDS Integers, Sequences, FiniteSets, TLC

VARIABLES
    lines,          \* the document: Seq of lines, each a Seq of characters
    caretLine,      \* textCursor().blockNumber()
    caretCol,       \* textCursor().columnNumber()
    anchorCol,      \* column of the selection anchor (same block as the caret)
    readOnly,       \* QPlainTextEdit.isReadOnly()
    autoSuggest,    \* Preferences().code_preferences.enable_auto_suggest, now
    activatedConnected, \* popup.activated is connected to _insert_completion
    jobId,          \* CodeEditor._completion_job_id
    pendingArgs,    \* CodeEditor._pending_completion_args: <<>> is None, else <<ctx>>
    timerActive,    \* CodeEditor._completion_timer.isActive()
    reqQueue,       \* queued bridge.request calls waiting in the worker thread
    resQueue,       \* queued worker.results calls waiting in the UI thread
    popupVisible,   \* CodeCompletionPopup.isVisible()
    popupItems,     \* the texts of CodeCompletionPopup._list
    popupRow,       \* CodeCompletionPopup._list.currentRow()
    foldRegions,    \* CodeEditor._fold_regions: start block -> FoldRegion
    colonRegions,   \* history: the map as _analyze_colon_blocks left it
    visible,        \* QTextBlock.isVisible() of each line
    foldTimerActive, \* CodeEditor._fold_timer.isActive()
    cachedLines,    \* CodeMiniMap._cached_lines ([] is <<>>)
    cachedVisibleBlocks, \* CodeMiniMap._cached_visible_blocks: <<>> is None, else <<list>>
    colorCache,     \* the keys of CodeMiniMap._color_cache
    lastPaint,      \* history: what the last paintEvent of the minimap computed
    lastClick,      \* history: what the last _scroll_to_position of the minimap computed
    beforeToggle,   \* history: the fold map and visibility before the last toggle_fold
    applied,        \* history: job ids of the results that passed the staleness test
    lastDispatched, \* history: the job id of the last request dispatched (0: none)
    dismissed,      \* history: a handler hid the visible popup, and since then no
                    \* context was captured and no result showed the popup
    ev              \* history: the handler that ran last and what it was given

vars == <<lines, caretLine, caretCol, anchorCol, readOnly, autoSuggest,
          activatedConnected, jobId,
          pendingArgs, timerActive, reqQueue, resQueue, popupVisible,
          popupItems, popupRow, foldRegions, colonRegions, visible,
          foldTimerActive, cachedLines, cachedVisibleBlocks, colorCache,
          lastPaint, lastClick, beforeToggle, applied, lastDispatched,
          dismissed, ev>>

docVars == <<lines, caretLine, caretCol, anchorCol>>
envVars == <<readOnly, autoSuggest, activatedConnected>>
foldVars == <<foldRegions, colonRegions>>
cacheVars == <<cachedLines, cachedVisibleBlocks, colorCache>>
mapVars == <<visible, foldTimerActive, cacheVars, lastPaint, lastClick, beforeToggle>>
pipeVars == <<jobId, pendingArgs, timerActive, popupVisible, popupItems, popupRow>>

----------------------------------------------------------------------------
(* Bounds of the model.                                                    *)

\* the job counter is capped: no handler runs that would take it past MaxJob
MaxJob == 4
\* the longest line a keystroke may produce
MaxLen == 1
\* the longest document the fold analyzer is run on
MaxFoldLines == 4
\* the entry ceiling of the minimap's color cache (10000 in the source)
ColorCacheCeiling == 3
\* the largest character position whose color is looked up directly
MaxColorPos == 6
\* the tallest minimap widget, in pixels
MaxMapHeight == 4

(* Program constants.                                                      *)

\* names = [c.name for c in comps[:64]]
MaxNames == 64
\* CodeMiniMap.line_height
LineHeight == 2

----------------------------------------------------------------------------
(* Characters and text.                                                    *)

IdentChars == {"a", "p", "r", "i", "n", "t", "x", "_", "1"}

\* ch.isalnum() or ch == '_'
IsIdentChar(ch) == ch \in IdentChars

\* the keys of the model's keyboard: an identifier character, the
\* member-access operator and a letter-boundary punctuation
TypedChars == {"a", ".", " "}

Min(a, b) == IF a <= b THEN a ELSE b
Max(a, b) == IF a >= b THEN a ELSE b

\* s[:n]
Take(s, n) == SubSeq(s, 1, Min(n, Len(s)))

\* s[n:]
Drop(s, n) == SubSeq(s, Min(n, Len(s)) + 1, Len(s))

\* s.startswith(p)
StartsWith(s, p) == Len(p) <= Len(s) /\ SubSeq(s, 1, Len(p)) = p

RECURSIVE JoinLines(_)
\* QTextDocument.toPlainText(): the blocks joined by a newline
JoinLines(ls) ==
    IF Len(ls) = 0 THEN <<>>
    ELSE IF Len(ls) = 1 THEN ls[1]
    ELSE ls[1] \o <<"\n">> \o JoinLines(Tail(ls))

----------------------------------------------------------------------------
(* The editor's document and caret, as one value.                          *)

Doc == [lines |-> lines, line |-> caretLine, col |-> caretCol, anchor |-> anchorCol]

CurLine(d) == d.lines[d.line + 1]

HasSelection(d) == d.anchor # d.col

RECURSIVE WalkLeft(_, _)
\* the while loop of _current_prefix: i (0-based) moves left over identifier
\* characters and stops on the first other character or at -1
WalkLeft(lineText, i) ==
    IF i >= 0 /\ IsIdentChar(lineText[i + 1])
    THEN WalkLeft(lineText, i - 1)
    ELSE i

\* CodeEditor._current_prefix
CurrentPrefix(d) ==
    LET lineText == CurLine(d)
        col == d.col
    IN IF col <= 0 \/ Len(lineText) = 0 THEN <<>>
       ELSE SubSeq(lineText, WalkLeft(lineText, col - 1) + 2, col)

\* CodeEditor._char_left_of_caret ('' is the empty string)
CharLeftOfCaret(d) ==
    LET lineText == CurLine(d)
        col == d.col
    IN IF col <= 0 \/ Len(lineText) = 0 THEN ""
       ELSE lineText[col]

\* CodeEditor._document_text_and_cursor
DocumentTextAndCursor(d) ==
    [text |-> JoinLines(d.lines), line |-> d.line + 1, col |-> d.col]

\* QTextCursor.insertText on the editor's cursor: the selection, if any, is
\* replaced; the caret ends after the inserted text
InsertText(d, s) ==
    LET lineText == CurLine(d)
        lo == Min(d.col, d.anchor)
        hi == Max(d.col, d.anchor)
        newLine == SubSeq(lineText, 1, lo) \o s \o SubSeq(lineText, hi + 1, Len(lineText))
    IN [d EXCEPT !.lines = [d.lines EXCEPT ![d.line + 1] = newLine],
                 !.col = lo + Len(s),
                 !.anchor = lo + Len(s)]

\* Backspace in QPlainTextEdit: deletes the selection, else the character left
\* of the caret; at column 0 of the first block nothing happens
DeletePrevious(d) ==
    IF HasSelection(d) THEN InsertText(d, <<>>)
    ELSE IF d.col > 0 THEN InsertText([d EXCEPT !.anchor = d.col - 1], <<>>)
    ELSE d

----------------------------------------------------------------------------
(* The completion pipeline's UI-thread state, as one value.                *)

Pipe == [job |-> jobId, pending |-> pendingArgs, timer |-> timerActive,
         vis |-> popupVisible, items |-> popupItems, row |-> popupRow]

\* _maybe_trigger_completions without the empty-prefix test
MaybeTriggerAlwaysArms(d, ro, p) ==
    IF ro THEN [p EXCEPT !.vis = FALSE]
    ELSE [p EXCEPT !.pending = <<DocumentTextAndCursor(d)>>,
                   !.job = @ + 1,
                   !.timer = TRUE]

\* _maybe_trigger_completions without the increment of the job counter
MaybeTriggerNoIncrement(d, ro, p) ==
    IF ro THEN [p EXCEPT !.vis = FALSE]
    ELSE IF CurrentPrefix(d) = <<>> /\ CharLeftOfCaret(d) # "."
    THEN [p EXCEPT !.vis = FALSE]
    ELSE [p EXCEPT !.pending = <<DocumentTextAndCursor(d)>>,
                   !.timer = TRUE]

\* CodeEditor._maybe_trigger_completions
MaybeTriggerCompletions(d, ro, p) ==
    IF ro THEN [p EXCEPT !.vis = FALSE]
    ELSE IF CurrentPrefix(d) = <<>> /\ CharLeftOfCaret(d) # "."
    THEN [p EXCEPT !.vis = FALSE]
    ELSE [p EXCEPT !.pending = <<DocumentTextAndCursor(d)>>,
                   !.job = @ + 1,
                   !.timer = TRUE]

\* CodeCompletionPopup.show_completions
ShowCompletions(p, items) ==
    IF Len(items) = 0
    THEN [p EXCEPT !.items = <<>>, !.row = -1, !.vis = FALSE]
    ELSE [p EXCEPT !.items = items, !.row = -1, !.vis = TRUE]

\* CodeCompletionPopup.current_text
CurrentText(p) == IF p.row < 0 THEN <<>> ELSE p.items[p.row + 1]

\* CodeCompletionPopup.select_next
SelectNext(p) ==
    LET count == Len(p.items)
    IN IF count = 0 THEN p
       ELSE [p EXCEPT !.row = IF p.row < 0 THEN 0 ELSE (p.row + 1) % count]

\* CodeCompletionPopup.select_prev
SelectPrev(p) ==
    LET count == Len(p.items)
    IN IF count = 0 THEN p
       ELSE [p EXCEPT !.row = IF p.row < 0 THEN count - 1 ELSE (p.row - 1) % count]

\* a result is stale (never, in this variant)
IsStaleNever(p, job) == FALSE

\* the staleness test of _on_completion_results: job_id != self._completion_job_id
IsStale(p, job) == job # p.job

\* the flag as it was when the editor was constructed
AutoSuggestAtConstruction == activatedConnected

\* appdata.Preferences().code_preferences.enable_auto_suggest, read when used
AutoSuggestEnabled == autoSuggest

\* CodeEditor._on_completion_results
OnCompletionResults(p, auto, job, names) ==
    IF IsStale(p, job) THEN p
    ELSE IF Len(names) = 0 THEN [p EXCEPT !.vis = FALSE]
    ELSE IF auto THEN ShowCompletions(p, names)
    ELSE p

\* chosen.split('(', 1)[0] if '(' in chosen else chosen
RECURSIVE BeforeParen(_)
BeforeParen(s) ==
    IF Len(s) = 0 \/ Head(s) = "(" THEN <<>>
    ELSE <<Head(s)>> \o BeforeParen(Tail(s))

\* the text _insert_completion hands to insertPlainText
Remainder(d, chosen) ==
    LET name_only == BeforeParen(chosen)
        prefix == CurrentPrefix(d)
    IN IF StartsWith(name_only, prefix)
       THEN Drop(name_only, Len(prefix))
       ELSE name_only

\* CodeEditor._insert_completion; insertPlainText emits textChanged, which
\* runs _maybe_trigger_completions before the popup is hidden
InsertCompletion(d, ro, p, chosen) ==
    LET remainder == Remainder(d, chosen)
    IN IF Len(remainder) = 0
       THEN [d |-> d, p |-> [p EXCEPT !.vis = FALSE]]
       ELSE LET d2 == InsertText(d, remainder)
                p2 == MaybeTriggerCompletions(d2, ro, p)
            IN [d |-> d2, p |-> [p2 EXCEPT !.vis = FALSE]]

----------------------------------------------------------------------------
(* The fold analyzer.  A fold map is a function from start block numbers   *)
(* to FoldRegion records.                                                  *)

\* self._fold_regions.clear(): the empty dict
EmptyMap == <<>>

\* self._fold_regions[k] = v
Put(m, k, v) == [x \in DOMAIN m \cup {k} |-> IF x = k THEN v ELSE m[x]]

\* folding.FoldRegion(start_block, end_block, is_folded=False)
FoldRegion(start, end) == [start_block |-> start, end_block |-> end, is_folded |-> FALSE]

\* the characters str.lstrip() and str.rstrip() remove
IsSpace(ch) == ch \in {" ", "\t"}

RECURSIVE Lstrip(_)
\* text.lstrip()
Lstrip(s) == IF Len(s) > 0 /\ IsSpace(Head(s)) THEN Lstrip(Tail(s)) ELSE s

RECURSIVE Rstrip(_)
\* text.rstrip()
Rstrip(s) ==
    IF Len(s) > 0 /\ IsSpace(s[Len(s)]) THEN Rstrip(SubSeq(s, 1, Len(s) - 1)) ELSE s

\* stripped and stripped.rstrip().endswith(':')
IsColonOpener(text) ==
    LET stripped == Lstrip(text)
        trimmed == Rstrip(stripped)
    IN Len(stripped) > 0 /\ Len(trimmed) > 0 /\ trimmed[Len(trimmed)] = ":"

\* len(text) - len(stripped)
IndentOf(text) == Len(text) - Len(Lstrip(text))

RECURSIVE ScanBlockBlankEnds(_, _, _, _)
\* the inner loop of _analyze_colon_blocks, ended by a blank line
ScanBlockBlankEnds(ls, n, indent_level, end_block) ==
    IF n >= Len(ls) THEN end_block
    ELSE IF Len(Lstrip(ls[n + 1])) = 0 THEN end_block
    ELSE IF IndentOf(ls[n + 1]) <= indent_level THEN end_block
    ELSE ScanBlockBlankEnds(ls, n + 1, indent_level, n)

RECURSIVE ScanBlock(_, _, _, _)
\* the inner loop of _analyze_colon_blocks from next_block n (a 0-based
\* block number): the end_block it leaves
ScanBlock(ls, n, indent_level, end_block) ==
    IF n >= Len(ls) THEN end_block
    ELSE IF Len(Lstrip(ls[n + 1])) = 0 THEN ScanBlock(ls, n + 1, indent_level, end_block)
    ELSE IF IndentOf(ls[n + 1]) <= indent_level THEN end_block
    ELSE ScanBlock(ls, n + 1, indent_level, n)

\* the colon pass recording a block whatever its end
RecordColonBlockAlways(regions, start_block, end_block) ==
    Put(regions, start_block, FoldRegion(start_block, end_block))

\* if end_block > start_block: self._fold_regions[start_block] = FoldRegion(...)
RecordColonBlock(regions, start_block, end_block) ==
    IF end_block > start_block
    THEN Put(regions, start_block, FoldRegion(start_block, end_block))
    ELSE regions

RECURSIVE ColonBlocksFrom(_, _, _)
\* the outer loop of _analyze_colon_blocks from block n
ColonBlocksFrom(ls, n, regions) ==
    IF n >= Len(ls) THEN regions
    ELSE LET text == ls[n + 1]
         IN IF IsColonOpener(text)
            THEN ColonBlocksFrom(ls, n + 1,
                     RecordColonBlock(regions, n, ScanBlock(ls, n + 1, IndentOf(text), n)))
            ELSE ColonBlocksFrom(ls, n + 1, regions)

\* CodeEditor._analyze_colon_blocks
AnalyzeColonBlocks(ls, regions) == ColonBlocksFrom(ls, 0, regions)

\* opening_tokens = {'{': '}', '[': ']', '(': ')'}
OpeningTokens == {"{", "[", "("}
ClosingTokens == {"}", "]", ")"}
CloserOf(ch) == CASE ch = "{" -> "}" [] ch = "[" -> "]" [] ch = "(" -> ")"

\* a paired pass that drops the most recent opener at any closer
PairedCharPopsAlways(st, ch, block_number) ==
    IF ch \in OpeningTokens
    THEN [st EXCEPT !.stack = Append(@, <<ch, block_number>>)]
    ELSE IF ch \in ClosingTokens /\ Len(st.stack) > 0
    THEN LET open_block == st.stack[Len(st.stack)][2]
             popped == SubSeq(st.stack, 1, Len(st.stack) - 1)
         IN IF block_number > open_block /\ CloserOf(st.stack[Len(st.stack)][1]) = ch
            THEN [stack |-> popped,
                  regions |-> Put(st.regions, open_block, FoldRegion(open_block, block_number))]
            ELSE [st EXCEPT !.stack = popped]
    ELSE st

\* one character of the paired pass; st is [stack, regions], the stack a
\* sequence of <<opening_char, block_number>>
PairedChar(st, ch, block_number) ==
    IF ch \in OpeningTokens
    THEN [st EXCEPT !.stack = Append(@, <<ch, block_number>>)]
    ELSE IF ch \in ClosingTokens /\ Len(st.stack) > 0
              /\ CloserOf(st.stack[Len(st.stack)][1]) = ch
    THEN LET open_block == st.stack[Len(st.stack)][2]
             popped == SubSeq(st.stack, 1, Len(st.stack) - 1)
         IN IF block_number > open_block
            THEN [stack |-> popped,
                  regions |-> Put(st.regions, open_block, FoldRegion(open_block, block_number))]
            ELSE [st EXCEPT !.stack = popped]
    ELSE st

RECURSIVE PairedLine(_, _, _, _)
\* for i, ch in enumerate(text), from character i (1-based)
PairedLine(st, text, i, block_number) ==
    IF i > Len(text) THEN st
    ELSE PairedLine(PairedChar(st, text[i], block_number), text, i + 1, block_number)

RECURSIVE PairedBlocksFrom(_, _, _)
\* the block loop of _analyze_paired_char_blocks from block n
PairedBlocksFrom(ls, n, st) ==
    IF n >= Len(ls) THEN st
    ELSE PairedBlocksFrom(ls, n + 1, PairedLine(st, Rstrip(ls[n + 1]), 1, n))

\* CodeEditor._analyze_paired_char_blocks
AnalyzePairedCharBlocks(ls, regions) ==
    PairedBlocksFrom(ls, 0, [stack |-> <<>>, regions |-> regions]).regions

\* analyze_fold_regions with the two passes in the other order
AnalyzeFoldRegionsColonLast(ls) ==
    AnalyzeColonBlocks(ls, AnalyzePairedCharBlocks(ls, EmptyMap))

\* CodeEditor.analyze_fold_regions: clear, colon pass, paired pass
AnalyzeFoldRegions(ls) ==
    AnalyzePairedCharBlocks(ls, AnalyzeColonBlocks(ls, EmptyMap))

----------------------------------------------------------------------------
(* The completion provider (jedi) is outside the repository: a call either *)
(* raises or returns some list of names.                                   *)

NameAA == <<"a", "a">>
NameACall == <<"a", "(", "x", ")">>

ProviderOutcomes ==
    { [raises |-> TRUE, comps |-> <<NameAA>>],
      [raises |-> FALSE, comps |-> <<>>],
      [raises |-> FALSE, comps |-> <<NameACall>>] }

\* the body of CompletionWorker.request up to the emit: the names posted
WorkerNames(outcome) ==
    IF outcome.raises THEN <<>> ELSE Take(outcome.comps, MaxNames)

\* the (job_id, names) CompletionWorker.request emits for a request
WorkerResult(req, outcome) == [job |-> req.job, names |-> WorkerNames(outcome)]

\* a worker whose provider's exception escapes before the emit
WorkerPostUncaught(q, req, outcome) ==
    IF outcome.raises THEN q ELSE Append(q, WorkerResult(req, outcome))

\* the queued results after CompletionWorker.request ran for req
WorkerPost(q, req, outcome) == Append(q, WorkerResult(req, outcome))

----------------------------------------------------------------------------
(* The fold timer and the minimap's caches.                                *)

\* the objects of the editor that have a connect(): its Qt signals
Signals == {"textChanged", "contentsChanged", "cursorPositionChanged",
            "indented", "unindented", "commented", "uncommented",
            "folding_changed"}

\* timers.create_bind_and_start_timer(parent, interval, connected_on_timeout,
\* trigger): what the timer's timeout is connected to and which signal starts
\* the timer; trigger.connect raises AttributeError for anything but a signal
CreateBindAndStartTimer(connected_on_timeout, trigger) ==
    [on_timeout |-> connected_on_timeout,
     started_by |-> IF trigger \in Signals THEN trigger ELSE "",
     raised |-> trigger \notin Signals]

\* CodeEditor._create_fold_analyzer: the third argument is the document's
\* contentsChanged signal, the fourth the bound method analyze_fold_regions
FoldTimer == CreateBindAndStartTimer("contentsChanged", "analyze_fold_regions")

\* the fold timer after a contentsChanged notification of the document
FoldTimerAfterContentsChanged(active) ==
    IF FoldTimer.started_by = "contentsChanged" THEN TRUE ELSE active

\* the signals CodeEditor declares (class attributes)
EditorSignalAttributes == {"indented", "unindented", "commented", "uncommented",
                           "folding_changed"}

\* CodeMiniMap.__init__: if hasattr(editor, 'foldingChanged'): connect
FoldingChangedConnected == "foldingChanged" \in EditorSignalAttributes

\* the minimap's caches as one value
Minimap == [colors |-> colorCache, lines |-> cachedLines,
            visible_blocks |-> cachedVisibleBlocks]

SetMinimap(m) ==
    /\ colorCache' = m.colors
    /\ cachedLines' = m.lines
    /\ cachedVisibleBlocks' = m.visible_blocks

\* CodeMiniMap._on_text_changed
OnTextChanged(m) ==
    [m EXCEPT !.colors = {}, !.lines = <<>>, !.visible_blocks = <<>>]

\* CodeMiniMap._on_folding_changed
OnFoldingChanged(m) == [m EXCEPT !.visible_blocks = <<>>]

\* toggle_fold hiding the region's start line too
ToggleFoldFromStart(regions, vis, block_number) ==
    IF block_number \notin DOMAIN regions
    THEN [regions |-> regions, visible |-> vis, emitted |-> FALSE]
    ELSE LET region == [regions[block_number] EXCEPT !.is_folded = ~@]
         IN [regions |-> [regions EXCEPT ![block_number] = region],
             visible |-> [i \in 1..Len(vis) |->
                            IF (i - 1) \in region.start_block..region.end_block
                            THEN ~region.is_folded
                            ELSE vis[i]],
             emitted |-> TRUE]

\* CodeEditor.toggle_fold: the fold map and the blocks' visibility after it,
\* and whether folding_changed was emitted; findBlockByNumber of a number
\* past the document gives an invalid block, on which setVisible does nothing
ToggleFold(regions, vis, block_number) ==
    IF block_number \notin DOMAIN regions
    THEN [regions |-> regions, visible |-> vis, emitted |-> FALSE]
    ELSE LET region == [regions[block_number] EXCEPT !.is_folded = ~@]
         IN [regions |-> [regions EXCEPT ![block_number] = region],
             visible |-> [i \in 1..Len(vis) |->
                            IF (i - 1) \in (region.start_block + 1)..region.end_block
                            THEN ~region.is_folded
                            ELSE vis[i]],
             emitted |-> TRUE]

RECURSIVE SplitLines(_)
\* str.split('\n')
SplitLines(text) ==
    IF \A i \in 1..Len(text) : text[i] # "\n" THEN <<text>>
    ELSE LET i == CHOOSE k \in 1..Len(text) :
                      text[k] = "\n" /\ \A j \in 1..(k - 1) : text[j] # "\n"
         IN <<SubSeq(text, 1, i - 1)>> \o SplitLines(SubSeq(text, i + 1, Len(text)))

\* the visible-line list with every block numbered from 1
VisibleFromOne(vis, n) == [i \in 1..Len(vis) |-> i]

RECURSIVE VisibleFrom(_, _)
\* the loop of _get_visible_blocks from block n
VisibleFrom(vis, n) ==
    IF n >= Len(vis) THEN <<>>
    ELSE (IF vis[n + 1] THEN <<n>> ELSE <<>>) \o VisibleFrom(vis, n + 1)

\* CodeMiniMap._get_visible_blocks: the cache after the call (the list
\* returned is its content)
GetVisibleBlocks(cached, vis) ==
    IF cached # <<>> THEN cached ELSE <<VisibleFrom(vis, 0)>>

RECURSIVE FirstAtLeast(_, _, _)
\* for i, vb in enumerate(visible_blocks): if vb >= block_num: return i
FirstAtLeast(block_num, visible_blocks, i) ==
    IF i >= Len(visible_blocks)
    THEN (IF Len(visible_blocks) > 0 THEN Len(visible_blocks) - 1 ELSE -1)
    ELSE IF visible_blocks[i + 1] >= block_num THEN i
    ELSE FirstAtLeast(block_num, visible_blocks, i + 1)

\* CodeMiniMap._find_block_index_in_visible
FindBlockIndexInVisible(block_num, visible_blocks) ==
    IF \E i \in 1..Len(visible_blocks) : visible_blocks[i] = block_num
    THEN (CHOOSE i \in 1..Len(visible_blocks) :
              /\ visible_blocks[i] = block_num
              /\ \A j \in 1..(i - 1) : visible_blocks[j] # block_num) - 1
    ELSE FirstAtLeast(block_num, visible_blocks, 0)

\* lines_in_minimap = minimap_height // self.line_height
LinesInMinimap(height) == height \div LineHeight

\* scroll_offset = max(0, min(center_pos // 2, len(visible_blocks) - lines_in_minimap))
\* with center_pos = center_index - lines_in_minimap
ScrollOffset(center_index, lines_in_minimap, n) ==
    Max(0, Min((center_index - lines_in_minimap) \div 2, n - lines_in_minimap))

\* CodeMiniMap._get_char_color_cached: the keys of the cache after a lookup
GetCharColorCached(cache, position) ==
    IF position \in cache THEN cache
    ELSE IF Cardinality(cache) > ColorCacheCeiling THEN {position}
    ELSE cache \cup {position}

RECURSIVE CharPosition(_, _)
\* char_position = sum(len(lines[i]) + 1 for i in range(block_num))
CharPosition(ls, block_num) ==
    IF block_num = 0 THEN 0
    ELSE CharPosition(ls, block_num - 1) + Len(ls[block_num]) + 1

RECURSIVE PaintLine(_, _, _, _)
\* for j, char in enumerate(line): the lookups of the characters that are
\* not blank (the lines of the model are shorter than the minimap is wide)
PaintLine(cache, line, char_position, j) ==
    IF j >= Len(line) THEN cache
    ELSE PaintLine(IF line[j + 1] \notin {" ", "\t"}
                   THEN GetCharColorCached(cache, char_position + j)
                   ELSE cache,
                   line, char_position, j + 1)

RECURSIVE PaintWindow(_, _, _, _, _, _, _)
\* for idx in range(start_idx, end_idx) of paintEvent, from idx
PaintWindow(cache, ls, visible_blocks, idx, end_idx, y_offset, height) ==
    IF idx >= end_idx \/ idx >= Len(visible_blocks) \/ y_offset >= height THEN cache
    ELSE LET block_num == visible_blocks[idx + 1]
         IN IF block_num >= Len(ls)
            THEN PaintWindow(cache, ls, visible_blocks, idx + 1, end_idx, y_offset, height)
            ELSE PaintWindow(PaintLine(cache, ls[block_num + 1], CharPosition(ls, block_num), 0),
                             ls, visible_blocks, idx + 1, end_idx,
                             y_offset + LineHeight, height)

\* CodeMiniMap.paintEvent for a widget of the given height while the editor's
\* first visible block is first_visible: the caches after it and what it
\* computed
PaintEvent(m, doc_lines, vis, height, first_visible) ==
    LET ls == IF m.lines = <<>> THEN SplitLines(JoinLines(doc_lines)) ELSE m.lines
        cached == GetVisibleBlocks(m.visible_blocks, vis)
        visible_blocks == cached[1]
        n == Len(visible_blocks)
        found == FindBlockIndexInVisible(first_visible, visible_blocks)
        center_index == IF found = -1 THEN 0 ELSE found
        lines_in_minimap == LinesInMinimap(height)
        scroll_offset == ScrollOffset(center_index, lines_in_minimap, n)
        start_idx == Max(0, scroll_offset)
        end_idx == Min(n, start_idx + lines_in_minimap + 1)
    IN IF n = 0
       THEN [m |-> [m EXCEPT !.lines = ls, !.visible_blocks = cached],
             paint |-> [height |-> height, first |-> first_visible, n |-> 0,
                        center |-> 0, offset |-> 0]]
       ELSE [m |-> [colors |-> PaintWindow(m.colors, ls, visible_blocks, start_idx,
                                           end_idx, 0, height),
                    lines |-> ls,
                    visible_blocks |-> cached],
             paint |-> [height |-> height, first |-> first_visible, n |-> n,
                        center |-> center_index, offset |-> scroll_offset]]

\* CodeMiniMap.scroll_sensitivity as __init__ sets it (1.0)
ScrollSensitivity == 1

\* int(x / d) for integers x and d > 0: Python's int() drops the fraction,
\* towards zero
IntOfQuotient(x, d) == IF x >= 0 THEN x \div d ELSE -((-x) \div d)

\* a cur_pos that rounds to the nearest line
CurPosRounded(y) == (y + 1) \div LineHeight

\* cur_pos = int((y / self.line_height) * self.scroll_sensitivity)
CurPos(y) == IntOfQuotient(y * ScrollSensitivity, LineHeight)

\* clicked_idx = max(0, min(cur_pos + int(scroll_offset), len(visible_blocks) - 1))
ClickedIdx(cur_pos, scroll_offset, n) == Max(0, Min(cur_pos + scroll_offset, n - 1))

\* a scroll line that is not clamped
UnclampedScrollLine(line, minimum, maximum) == line

\* max(scrollbar.minimum(), min(centered_scroll_line, scrollbar.maximum()))
ClampedScrollLine(line, minimum, maximum) == Max(minimum, Min(line, maximum))

\* CodeMiniMap._scroll_to_position(y) for a widget of the given height while
\* the editor's first visible block is first_visible, visible_blocks_count
\* is count (its viewport holds count - 1 whole lines) and its scrollbar ranges over
\* minimum..maximum: the caches after it, and the index it resolved y to with
\* the value it set the scrollbar to and the maximum the scrollbar had (n = 0:
\* it returned at once, and the scrollbar keeps the value of prev)
ScrollToPosition(m, vis, prev, y, height, first_visible, count, minimum, maximum) ==
    LET cached == GetVisibleBlocks(m.visible_blocks, vis)
        visible_blocks == cached[1]
        n == Len(visible_blocks)
        center_index == FindBlockIndexInVisible(first_visible, visible_blocks)
        lines_in_minimap == LinesInMinimap(height)
        scroll_offset == ScrollOffset(center_index, lines_in_minimap, n)
        clicked_idx == ClickedIdx(CurPos(y), scroll_offset, n)
        clicked_block_num == visible_blocks[clicked_idx + 1]
        centered_scroll_line == clicked_block_num - count \div 2
    IN IF n = 0
       THEN [m |-> [m EXCEPT !.visible_blocks = cached],
             click |-> [prev EXCEPT !.n = 0]]
       ELSE [m |-> [m EXCEPT !.visible_blocks = cached],
             click |-> [n |-> n, idx |-> clicked_idx,
                        value |-> ClampedScrollLine(centered_scroll_line,
                                                    minimum, maximum),
                        maximum |-> maximum]]

\* the slots run by textChanged and contentsChanged when a handler changed
\* the text, other than _maybe_trigger_completions
DocumentChanged(changed) ==
    /\ SetMinimap(IF changed THEN OnTextChanged(Minimap) ELSE Minimap)
    /\ foldTimerActive' = IF changed
                          THEN FoldTimerAfterContentsChanged(foldTimerActive)
                          ELSE foldTimerActive

NoPaint == [height |-> 0, first |-> 0, n |-> 0, center |-> 0, offset |-> 0]

\* no _scroll_to_position has run; the scrollbar of a new editor is at 0
NoClick == [n |-> 0, idx |-> 0, value |-> 0, maximum |-> 0]

\* CodeMiniMap.__init__ and the blocks of a document nothing has folded
MinimapConstructed ==
    /\ visible = [i \in 1..Len(lines) |-> TRUE]
    /\ foldTimerActive = FALSE
    /\ cachedLines = <<>>
    /\ cachedVisibleBlocks = << <<>> >>
    /\ colorCache = {}
    /\ lastPaint = NoPaint
    /\ lastClick = NoClick
    /\ beforeToggle = [regions |-> EmptyMap, visible |-> visible]

----------------------------------------------------------------------------
(* State after CodeEditor.__init__: an empty document, nothing pending.    *)

NoEvent == [op |-> "init", job |-> 0, names |-> <<>>]

Event(op) == [op |-> op, job |-> 0, names |-> <<>>]

Init ==
    /\ lines = << <<>> >>
    /\ caretLine = 0
    /\ caretCol = 0
    /\ anchorCol = 0
    /\ readOnly = FALSE
    /\ autoSuggest \in BOOLEAN
    /\ activatedConnected = autoSuggest
    /\ jobId = 0
    /\ pendingArgs = <<>>
    /\ timerActive = FALSE
    /\ reqQueue = <<>>
    /\ resQueue = <<>>
    /\ popupVisible = FALSE
    /\ popupItems = <<>>
    /\ popupRow = -1
    /\ foldRegions = EmptyMap
    /\ colonRegions = EmptyMap
    /\ MinimapConstructed
    /\ applied = <<>>
    /\ lastDispatched = 0
    /\ dismissed = FALSE
    /\ ev = NoEvent

SetDoc(d) ==
    /\ lines' = d.lines
    /\ caretLine' = d.line
    /\ caretCol' = d.col
    /\ anchorCol' = d.anchor

SetPipe(p) ==
    /\ jobId' = p.job
    /\ pendingArgs' = p.pending
    /\ timerActive' = p.timer
    /\ popupVisible' = p.vis
    /\ popupItems' = p.items
    /\ popupRow' = p.row

\* the history of dismissals after a handler that leaves the pipeline as p:
\* a context the handler captured was captured before it hid the popup
Dismissal(p) ==
    dismissed' = IF popupVisible /\ ~p.vis THEN TRUE
                 ELSE IF p.job > jobId THEN FALSE
                 ELSE dismissed

\* super().keyPressEvent(event) for a key that edits the text to d2 (a
\* read-only editor ignores it), then the explicit _maybe_trigger_completions
\* of keyPressEvent; a text change emits textChanged, which runs
\* _maybe_trigger_completions once more, first
EditKey(d2) ==
    LET d == IF readOnly THEN Doc ELSE d2
        p1 == IF d.lines # lines THEN MaybeTriggerCompletions(d, readOnly, Pipe) ELSE Pipe
        p2 == MaybeTriggerCompletions(d, readOnly, p1)
    IN /\ p2.job <= MaxJob
       /\ Len(CurLine(d)) <= MaxLen
       /\ SetDoc(d)
       /\ SetPipe(p2)
       /\ Dismissal(p2)
       /\ DocumentChanged(d.lines # lines)

\* keyPressEvent with a key that inserts the character c
TypeChar(c) ==
    /\ EditKey(InsertText(Doc, <<c>>))
    /\ ev' = Event("other")
    /\ UNCHANGED <<envVars, foldVars, visible, lastPaint, lastClick, beforeToggle, reqQueue,
                   resQueue, applied, lastDispatched>>

\* keyPressEvent with Backspace
Backspace ==
    /\ EditKey(DeletePrevious(Doc))
    /\ ev' = Event("other")
    /\ UNCHANGED <<envVars, foldVars, visible, lastPaint, lastClick, beforeToggle, reqQueue,
                   resQueue, applied, lastDispatched>>

\* keyPressEvent with a key that neither edits nor moves the caret (a
\* modifier, a function key): one run of _maybe_trigger_completions
KeyOther ==
    LET p == MaybeTriggerCompletions(Doc, readOnly, Pipe)
    IN /\ p.job <= MaxJob
       /\ SetPipe(p)
       /\ Dismissal(p)
       /\ ev' = Event("key_other")
       /\ UNCHANGED <<docVars, envVars, foldVars, mapVars, reqQueue, resQueue, applied,
                      lastDispatched>>

\* keyPressEvent with Escape: hides a visible popup and returns; with no
\* popup it is a key that neither edits nor moves
KeyEscape ==
    LET p == IF popupVisible
             THEN [Pipe EXCEPT !.vis = FALSE]
             ELSE MaybeTriggerCompletions(Doc, readOnly, Pipe)
    IN /\ p.job <= MaxJob
       /\ SetPipe(p)
       /\ Dismissal(p)
       /\ ev' = Event("other")
       /\ UNCHANGED <<docVars, envVars, foldVars, mapVars, reqQueue, resQueue, applied,
                      lastDispatched>>

\* keyPressEvent with Down while the popup is visible
KeyDown ==
    /\ popupVisible
    /\ SetPipe(SelectNext(Pipe))
    /\ ev' = Event("other")
    /\ UNCHANGED <<docVars, envVars, foldVars, mapVars, reqQueue, resQueue, applied,
                   lastDispatched, dismissed>>

\* keyPressEvent with Up while the popup is visible
KeyUp ==
    /\ popupVisible
    /\ SetPipe(SelectPrev(Pipe))
    /\ ev' = Event("other")
    /\ UNCHANGED <<docVars, envVars, foldVars, mapVars, reqQueue, resQueue, applied,
                   lastDispatched, dismissed>>

\* keyPressEvent with Tab while the popup is visible: accept
KeyTab ==
    /\ popupVisible
    /\ LET r == InsertCompletion(Doc, readOnly, Pipe, CurrentText(Pipe))
       IN /\ r.p.job <= MaxJob
          /\ SetDoc(r.d)
          /\ SetPipe(r.p)
          /\ Dismissal(r.p)
          /\ DocumentChanged(r.d.lines # lines)
    /\ ev' = [op |-> "tab", job |-> 0, names |-> <<CurrentText(Pipe)>>]
    /\ UNCHANGED <<envVars, foldVars, visible, lastPaint, lastClick, beforeToggle, reqQueue,
                   resQueue, applied, lastDispatched>>

\* QPlainTextEdit's Return: the selection, if any, is replaced by a block
\* separator; the caret ends at the start of the new block
InsertNewline(d) ==
    LET lineText == CurLine(d)
        lo == Min(d.col, d.anchor)
        hi == Max(d.col, d.anchor)
    IN [lines |-> SubSeq(d.lines, 1, d.line)
                  \o <<SubSeq(lineText, 1, lo), SubSeq(lineText, hi + 1, Len(lineText))>>
                  \o SubSeq(d.lines, d.line + 2, Len(d.lines)),
        line |-> d.line + 1, col |-> 0, anchor |-> 0]

\* Return while the popup is visible, accepting the current row first
ReturnAccepts(d, ro, p) ==
    LET r == InsertCompletion(d, ro, p, CurrentText(p))
        d2 == InsertNewline(r.d)
    IN [d |-> d2, p |-> MaybeTriggerCompletions(d2, ro, [r.p EXCEPT !.vis = FALSE])]

\* the branch of keyPressEvent for Return/Enter while the popup is visible:
\* hide the popup, then super().keyPressEvent, which a read-only editor
\* ignores and whose textChanged runs _maybe_trigger_completions
ReturnWhileVisible(d, ro, p) ==
    LET hidden == [p EXCEPT !.vis = FALSE]
    IN IF ro THEN [d |-> d, p |-> hidden]
       ELSE LET d2 == InsertNewline(d)
            IN [d |-> d2, p |-> MaybeTriggerCompletions(d2, ro, hidden)]

\* keyPressEvent with Return or Enter while the popup is visible; the new
\* block is visible
KeyReturn ==
    /\ popupVisible
    /\ LET r == ReturnWhileVisible(Doc, readOnly, Pipe)
       IN /\ r.p.job <= MaxJob
          /\ SetDoc(r.d)
          /\ SetPipe(r.p)
          /\ Dismissal(r.p)
          /\ DocumentChanged(r.d.lines # lines)
          /\ visible' = IF r.d.lines = lines THEN visible
                        ELSE SubSeq(visible, 1, caretLine + 1) \o <<TRUE>>
                             \o SubSeq(visible, caretLine + 2, Len(visible))
    /\ ev' = [op |-> "return", job |-> 0, names |-> <<CurrentText(Pipe)>>]
    /\ UNCHANGED <<envVars, foldVars, lastPaint, lastClick, beforeToggle, reqQueue, resQueue,
                   applied, lastDispatched>>

\* the user activates row `row` of the popup's list (a double click, or Enter
\* with the list focused): QListWidget makes it the current row and emits
\* itemActivated; _on_item_activated emits activated(text), which runs
\* _insert_completion if it was connected at construction, then hides the popup
ItemActivated(row) ==
    /\ popupVisible
    /\ row \in 0..(Len(popupItems) - 1)
    /\ LET text == popupItems[row + 1]
           clicked == [Pipe EXCEPT !.row = row]
           r == IF AutoSuggestAtConstruction
                THEN InsertCompletion(Doc, readOnly, clicked, text)
                ELSE [d |-> Doc, p |-> clicked]
           p == [r.p EXCEPT !.vis = FALSE]
       IN /\ p.job <= MaxJob
          /\ SetDoc(r.d)
          /\ SetPipe(p)
          /\ Dismissal(p)
          /\ DocumentChanged(r.d.lines # lines)
          /\ ev' = [op |-> "activate", job |-> 0, names |-> <<text>>]
    /\ UNCHANGED <<envVars, foldVars, visible, lastPaint, lastClick, beforeToggle, reqQueue,
                   resQueue, applied, lastDispatched>>

\* CodeEditor.focusOutEvent
FocusOut ==
    /\ popupVisible' = FALSE
    /\ Dismissal([Pipe EXCEPT !.vis = FALSE])
    /\ ev' = Event("other")
    /\ UNCHANGED <<docVars, envVars, foldVars, mapVars, jobId, pendingArgs, timerActive,
                   reqQueue, resQueue, popupItems, popupRow, applied, lastDispatched>>

\* QPlainTextEdit.setReadOnly
SetReadOnly(b) ==
    /\ readOnly # b
    /\ readOnly' = b
    /\ ev' = Event("other")
    /\ UNCHANGED <<docVars, autoSuggest, activatedConnected, pipeVars, reqQueue,
                   resQueue, foldVars, mapVars, applied,
                   lastDispatched, dismissed>>

\* the preferences collaborator changes enable_auto_suggest
SetAutoSuggest(b) ==
    /\ autoSuggest # b
    /\ autoSuggest' = b
    /\ ev' = Event("other")
    /\ UNCHANGED <<docVars, readOnly, activatedConnected, pipeVars, reqQueue,
                   resQueue, foldVars, mapVars, applied,
                   lastDispatched, dismissed>>

\* the request _kickoff_completion emits for the pending context
Request(ctx, job) == [text |-> ctx.text, line |-> ctx.line, col |-> ctx.col, job |-> job]

\* a timer callback that emits no request
KickoffDrops(q, pending, job) == q

\* the requests queued to the worker after _kickoff_completion ran
Kickoff(q, pending, job) ==
    IF pending = <<>> THEN q ELSE Append(q, Request(pending[1], job))

\* the single-shot debounce timer times out: CodeEditor._kickoff_completion
KickoffCompletion ==
    /\ timerActive
    /\ timerActive' = FALSE
    /\ reqQueue' = Kickoff(reqQueue, pendingArgs, jobId)
    /\ lastDispatched' = IF pendingArgs = <<>> THEN lastDispatched ELSE jobId
    /\ ev' = [op |-> "kickoff", job |-> jobId, names |-> <<>>]
    /\ UNCHANGED <<docVars, envVars, foldVars, mapVars, jobId, pendingArgs, resQueue,
                   popupVisible, popupItems, popupRow, applied, dismissed>>

\* the worker thread takes its next queued call: CompletionWorker.request
WorkerRequest(outcome) ==
    /\ reqQueue # <<>>
    /\ reqQueue' = Tail(reqQueue)
    /\ resQueue' = WorkerPost(resQueue, Head(reqQueue), outcome)
    /\ ev' = [op |-> IF outcome.raises THEN "worker_raised" ELSE "worker",
              job |-> Head(reqQueue).job, names |-> <<>>]
    /\ UNCHANGED <<docVars, envVars, foldVars, mapVars, pipeVars, applied,
                   lastDispatched, dismissed>>

RemoveAt(q, i) == SubSeq(q, 1, i - 1) \o SubSeq(q, i + 1, Len(q))

\* the UI thread runs the queued call i of _on_completion_results
ResultDelivered(i) ==
    /\ i \in 1..Len(resQueue)
    /\ LET r == resQueue[i]
           p == OnCompletionResults(Pipe, AutoSuggestEnabled, r.job, r.names)
       IN /\ SetPipe(p)
          /\ dismissed' = IF p.vis THEN FALSE ELSE dismissed
          /\ applied' = IF IsStale(Pipe, r.job) THEN applied ELSE Append(applied, r.job)
          /\ ev' = [op |-> "result", job |-> r.job, names |-> r.names]
    /\ resQueue' = RemoveAt(resQueue, i)
    /\ UNCHANGED <<docVars, envVars, foldVars, mapVars, reqQueue, lastDispatched>>

UserStep ==
    \/ \E c \in TypedChars : TypeChar(c)
    \/ Backspace
    \/ KeyOther
    \/ KeyEscape
    \/ KeyDown
    \/ KeyUp
    \/ KeyTab
    \/ FocusOut
    \/ \E b \in BOOLEAN : SetReadOnly(b)
    \/ \E b \in BOOLEAN : SetAutoSuggest(b)

\* queued calls reach the UI thread in the order they were posted
Next ==
    \/ UserStep
    \/ KickoffCompletion
    \/ \E o \in ProviderOutcomes : WorkerRequest(o)
    \/ ResultDelivered(1)

Spec == Init /\ [][Next]_vars

\* the same program with the results delivered in any order
NextReorder ==
    \/ UserStep
    \/ KickoffCompletion
    \/ \E o \in ProviderOutcomes : WorkerRequest(o)
    \/ \E i \in 1..Len(resQueue) : ResultDelivered(i)

SpecReorder == Init /\ [][NextReorder]_vars

\* the event loop runs a timer that is due and a queued call that is waiting,
\* and the worker thread's loop takes every request queued to it
NextLive ==
    \/ \E c \in TypedChars : TypeChar(c)
    \/ Backspace
    \/ KeyOther
    \/ KeyEscape
    \/ FocusOut
    \/ KickoffCompletion
    \/ \E o \in ProviderOutcomes : WorkerRequest(o)
    \/ ResultDelivered(1)

SpecLive ==
    /\ Init
    /\ [][NextLive]_vars
    /\ WF_vars(KickoffCompletion)
    /\ WF_vars(\E o \in ProviderOutcomes : WorkerRequest(o))
    /\ WF_vars(ResultDelivered(1))

\* the same program with the popup's list clicked as well
NextActivate ==
    \/ Next
    \/ \E row \in 0..(Len(popupItems) - 1) : ItemActivated(row)

SpecActivate == Init /\ [][NextActivate]_vars

----------------------------------------------------------------------------
(* Accepting a candidate: the editor with a line of text, the caret after  *)
(* an identifier prefix and the popup showing the applied result of job 1. *)

NamePrint == <<"p", "r", "i", "n", "t">>
NamePrintCall == <<"p", "r", "i", "n", "t", "(", ".", ".", ".", ")">>
NamePri == <<"p", "r", "i">>
NameInt == <<"i", "n", "t">>

AcceptLines == { <<"p", "r", "i">>, <<"p", "r", "i", " ">> }

AcceptItems == { <<NamePrint>>, <<NamePrintCall, NamePri, NameInt>> }

InitAccept ==
    /\ \E l \in AcceptLines : lines = <<l>>
    /\ caretLine = 0
    /\ caretCol \in 1..Len(lines[1])
    /\ anchorCol = caretCol
    /\ CurrentPrefix([lines |-> lines, line |-> 0, col |-> caretCol, anchor |-> caretCol]) # <<>>
    /\ readOnly = FALSE
    /\ autoSuggest = TRUE
    /\ activatedConnected = TRUE
    /\ jobId = 1
    /\ pendingArgs = <<[text |-> JoinLines(lines), line |-> 1, col |-> caretCol]>>
    /\ timerActive = FALSE
    /\ reqQueue = <<>>
    /\ resQueue = <<>>
    /\ popupVisible = TRUE
    /\ popupItems \in AcceptItems
    /\ popupRow = -1
    /\ foldRegions = EmptyMap
    /\ colonRegions = EmptyMap
    /\ MinimapConstructed
    /\ applied = <<1>>
    /\ lastDispatched = 1
    /\ dismissed = FALSE
    /\ ev = [op |-> "result", job |-> 1, names |-> popupItems]

\* keyPressEvent with Shift+Left while the popup is visible: the key goes to
\* QPlainTextEdit, which moves the caret and keeps the anchor
ShiftLeft ==
    /\ popupVisible
    /\ caretCol' = Max(caretCol - 1, 0)
    /\ ev' = Event("other")
    /\ UNCHANGED <<lines, caretLine, anchorCol, envVars, foldVars, mapVars, pipeVars,
                   reqQueue, resQueue, applied,
                   lastDispatched, dismissed>>

\* keyPressEvent with Shift+Right while the popup is visible
ShiftRight ==
    /\ popupVisible
    /\ caretCol' = Min(caretCol + 1, Len(CurLine(Doc)))
    /\ ev' = Event("other")
    /\ UNCHANGED <<lines, caretLine, anchorCol, envVars, foldVars, mapVars, pipeVars,
                   reqQueue, resQueue, applied,
                   lastDispatched, dismissed>>

NextAccept ==
    \/ ShiftLeft
    \/ ShiftRight
    \/ KeyDown
    \/ KeyUp
    \/ KeyTab

SpecAccept == InitAccept /\ [][NextAccept]_vars

\* the same editor with every way of dismissing the popup
NextDismiss ==
    \/ NextAccept
    \/ KeyEscape
    \/ KeyReturn
    \/ FocusOut
    \/ \E row \in 0..(Len(popupItems) - 1) : ItemActivated(row)

SpecDismiss == InitAccept /\ [][NextDismiss]_vars

----------------------------------------------------------------------------
(* The fold analyzer over documents of up to MaxFoldLines lines.           *)

FoldLines ==
    { <<"a", ":">>, <<"a">>, <<>>, <<"(", ":">>, <<")">>, <<"]">>,
      <<" ", "a">>, <<" ", "a", ":">>, <<" ">>, <<" ", ")">>,
      <<" ", " ", "a">>, <<"a", ":", " ">> }

FoldDocs == UNION { [1..n -> FoldLines] : n \in 1..MaxFoldLines }

\* an editor whose document was typed in and has not been analyzed since
InitFold ==
    /\ lines \in FoldDocs
    /\ caretLine = 0
    /\ caretCol = 0
    /\ anchorCol = 0
    /\ readOnly = FALSE
    /\ autoSuggest = TRUE
    /\ activatedConnected = autoSuggest
    /\ jobId = 0
    /\ pendingArgs = <<>>
    /\ timerActive = FALSE
    /\ reqQueue = <<>>
    /\ resQueue = <<>>
    /\ popupVisible = FALSE
    /\ popupItems = <<>>
    /\ popupRow = -1
    /\ foldRegions = EmptyMap
    /\ colonRegions = EmptyMap
    /\ MinimapConstructed
    /\ applied = <<>>
    /\ lastDispatched = 0
    /\ dismissed = FALSE
    /\ ev = NoEvent

\* a call of CodeEditor.analyze_fold_regions
RunAnalyzeFoldRegions ==
    /\ foldRegions' = AnalyzeFoldRegions(lines)
    /\ colonRegions' = AnalyzeColonBlocks(lines, EmptyMap)
    /\ ev' = Event("analyze")
    /\ UNCHANGED <<docVars, envVars, pipeVars, mapVars, reqQueue, resQueue, applied,
                   lastDispatched, dismissed>>

NextFold == RunAnalyzeFoldRegions

SpecFold == InitFold /\ [][NextFold]_vars

----------------------------------------------------------------------------
(* Loading documents, folding them from the fold area, painting the        *)
(* minimap.                                                                *)

\* the example document "if x:", "    a()", "    b()", "c()"
DocExample ==
    << <<"i", "f", " ", "x", ":">>,
       <<" ", " ", " ", " ", "a", "(", ")">>,
       <<" ", " ", " ", " ", "b", "(", ")">>,
       <<"c", "(", ")">> >>

\* a block inside a block: "a:", " a:", "  a", " a"
DocNested ==
    << <<"a", ":">>, <<" ", "a", ":">>, <<" ", " ", "a">>, <<" ", "a">> >>

\* a block, then a line after it
DocShort == << <<"a", ":">>, <<" ", "a">>, <<"a">> >>

ToggleDocs == {DocExample, DocNested, DocShort, << <<"a">> >>}

\* the heights of the minimap widget: room for one line at least
MapHeights == LineHeight..MaxMapHeight

InitToggle == Init /\ autoSuggest = TRUE

\* CodeEditor.setPlainText(text): QPlainTextEdit.setPlainText replaces the
\* document (every block visible, the caret at the start) and emits
\* textChanged and contentsChanged, then analyze_fold_regions runs
SetPlainText(text) ==
    LET d == [lines |-> SplitLines(text), line |-> 0, col |-> 0, anchor |-> 0]
        p == MaybeTriggerCompletions(d, readOnly, Pipe)
    IN /\ p.job <= MaxJob
       /\ SetDoc(d)
       /\ SetPipe(p)
       /\ Dismissal(p)
       /\ visible' = [i \in 1..Len(d.lines) |-> TRUE]
       /\ DocumentChanged(TRUE)
       /\ foldRegions' = AnalyzeFoldRegions(d.lines)
       /\ colonRegions' = AnalyzeColonBlocks(d.lines, EmptyMap)
       /\ ev' = Event("set_plain_text")
       /\ UNCHANGED <<envVars, lastPaint, lastClick, beforeToggle, reqQueue, resQueue, applied,
                      lastDispatched>>

\* the block numbers get_block_number_at_pos can return: a block that is
\* visible (a hidden block has no height), or -1 below the last block
BlocksAtPos == {-1} \cup {i \in 0..(Len(lines) - 1) : visible[i + 1]}

\* FoldArea.mousePressEvent with the left button over block_number:
\* toggle_fold, whose folding_changed runs the slots connected to it;
\* ev.job carries the block number
FoldAreaClick(block_number) ==
    LET t == ToggleFold(foldRegions, visible, block_number)
    IN /\ foldRegions' = t.regions
       /\ visible' = t.visible
       /\ SetMinimap(IF t.emitted /\ FoldingChangedConnected
                     THEN OnFoldingChanged(Minimap)
                     ELSE Minimap)
       /\ beforeToggle' = [regions |-> foldRegions, visible |-> visible]
       /\ ev' = [op |-> "toggle", job |-> block_number, names |-> <<>>]
       /\ UNCHANGED <<docVars, envVars, pipeVars, colonRegions, foldTimerActive,
                      lastPaint, lastClick, reqQueue, resQueue, applied,
                   lastDispatched, dismissed>>

\* the blocks the editor can show first: firstVisibleBlock() is a visible one
FirstVisibleBlocks == {i \in 0..(Len(lines) - 1) : visible[i + 1]}

\* CodeMiniMap.paintEvent
MinimapPaint(height, first_visible) ==
    LET r == PaintEvent(Minimap, lines, visible, height, first_visible)
    IN /\ SetMinimap(r.m)
       /\ lastPaint' = r.paint
       /\ ev' = Event("paint")
       /\ UNCHANGED <<docVars, envVars, pipeVars, foldVars, visible, foldTimerActive,
                      lastClick, beforeToggle, reqQueue, resQueue, applied,
                   lastDispatched, dismissed>>

NextToggle ==
    \/ \E d \in ToggleDocs : SetPlainText(JoinLines(d))
    \/ \E k \in BlocksAtPos : FoldAreaClick(k)
    \/ \E h \in MapHeights : \E fv \in FirstVisibleBlocks : MinimapPaint(h, fv)

SpecToggle == InitToggle /\ [][NextToggle]_vars

\* the pixel rows a press or a drag can report: above the widget, inside it
\* and below it
ClickRows == (0 - LineHeight)..(MaxMapHeight + LineHeight)

\* viewport_height // block_height + 1 for viewports of 0 and 3 whole lines
ViewportBlockCounts == {1, 4}

\* verticalScrollBar().maximum(): 0 when the document fits the viewport, the
\* last line when the viewport holds one line
ScrollMaxima == {0, Len(lines) - 1}

\* the documents the clicked minimap shows
ClickDocs == {DocNested, DocShort}

\* CodeMiniMap.mousePressEvent, or mouseMoveEvent with the left button down,
\* at row y: _scroll_to_position(y); the scrollbar's minimum is 0; ev.job
\* carries y
MinimapClick(y, height, first_visible, visible_blocks_count, maximum) ==
    LET r == ScrollToPosition(Minimap, visible, lastClick, y, height, first_visible,
                              visible_blocks_count, 0, maximum)
    IN /\ SetMinimap(r.m)
       /\ lastClick' = r.click
       /\ ev' = [op |-> "click", job |-> y, names |-> <<>>]
       /\ UNCHANGED <<docVars, envVars, pipeVars, foldVars, visible, foldTimerActive,
                      lastPaint, beforeToggle, reqQueue, resQueue, applied,
                      lastDispatched, dismissed>>

\* loading and folding, with the minimap clicked at any row, whatever its
\* height and the editor's scroll position
NextClick ==
    \/ \E d \in ClickDocs : SetPlainText(JoinLines(d))
    \/ \E k \in BlocksAtPos : FoldAreaClick(k)
    \/ \E y \in ClickRows : \E h \in MapHeights : \E fv \in FirstVisibleBlocks :
       \E c \in ViewportBlockCounts : \E mx \in ScrollMaxima :
          MinimapClick(y, h, fv, c, mx)

SpecClick == InitToggle /\ [][NextClick]_vars

\* the minimap clicked as it was just painted: the widget has the height and
\* the editor the first visible block of the paintEvent that ran last
ClickAfterPaint ==
    /\ ev.op = "paint"
    /\ \E y \in ClickRows : \E c \in ViewportBlockCounts : \E mx \in ScrollMaxima :
          MinimapClick(y, lastPaint.height, lastPaint.first, c, mx)

\* loading, folding and painting, with the painted minimap clicked
NextPaintClick ==
    \/ SetPlainText(JoinLines(DocNested))
    \/ \E k \in BlocksAtPos : FoldAreaClick(k)
    \/ \E h \in MapHeights : \E fv \in FirstVisibleBlocks : MinimapPaint(h, fv)
    \/ ClickAfterPaint

SpecPaintClick == InitToggle /\ [][NextPaintClick]_vars

----------------------------------------------------------------------------
(* The minimap's color cache under lookups of single positions.            *)

ColorPositions == 0..MaxColorPos

\* a call of _get_char_color_cached(position); ev.job carries the position
LookupColor(position) ==
    /\ colorCache' = GetCharColorCached(colorCache, position)
    /\ ev' = [op |-> "color", job |-> position, names |-> <<>>]
    /\ UNCHANGED <<docVars, envVars, pipeVars, foldVars, visible, foldTimerActive,
                   cachedLines, cachedVisibleBlocks, lastPaint, lastClick, beforeToggle,
                   reqQueue, resQueue, applied,
                   lastDispatched, dismissed>>

NextColorCache == \E position \in ColorPositions : LookupColor(position)

SpecColorCache == InitToggle /\ [][NextColorCache]_vars

----------------------------------------------------------------------------
(* The completion pipeline.                                                *)

\* the edit or keystroke that ran last left nothing to complete
Suppressed == CurrentPrefix(Doc) = <<>> /\ CharLeftOfCaret(Doc) # "."

PopupUnchanged == UNCHANGED <<popupVisible, popupItems, popupRow>>

\* C1: a result delivered to the UI thread whose job id is not the
\* latest-issued id at receipt leaves the popup's contents, selection and
\* visibility as they were, in whatever order the results arrive.
C1_StaleResultLeavesPopup ==
    [][(ev'.op = "result" /\ ev'.job # jobId) => PopupUnchanged]_vars

\* C1: an older job's result was delivered after the newest job's result had
\* been applied and shown, and the third result is still to come.
C1_OutOfOrderWitness ==
    /\ ev.op = "result"
    /\ ev.job < jobId
    /\ applied = <<jobId>>
    /\ popupVisible
    /\ resQueue # <<>>

\* C2: the job ids of the results applied (those that passed the staleness
\* test) form a strictly increasing sequence, over every interleaving and
\* every delivery order: none is applied after a larger one, none twice.
C2_AppliedStrictlyIncreasing ==
    \A i, j \in 1..Len(applied) : i < j => applied[i] < applied[j]

\* C2: two results were applied, and a stale one was dropped after them.
C2_TwoAppliedWitness ==
    /\ Len(applied) >= 2
    /\ ev.op = "result"
    /\ ev.job < jobId

\* C3: when the debounce timer fires exactly one request is dispatched, and
\* it carries the text, line and column left by the most recent keystroke
\* (the document and caret change only in keystroke handlers) and the
\* latest-issued job id.
C3_DispatchCarriesLatestKeystroke ==
    [][ev'.op = "kickoff" =>
          /\ Len(reqQueue') = Len(reqQueue) + 1
          /\ reqQueue'[Len(reqQueue')] = Request(DocumentTextAndCursor(Doc), jobId)]_vars

\* C4: once an edit has left an empty prefix with no '.' left of the caret,
\* no request is dispatched until a later edit changes that, even if the
\* timer was armed before.
C4_NoDispatchWhileSuppressed ==
    [][(ev'.op = "kickoff" /\ Len(reqQueue') > Len(reqQueue)) => ~Suppressed]_vars

\* C5: one run of _maybe_trigger_completions (a key that neither edits nor
\* moves the caret) on a read-only editor, or with an empty prefix and no '.'
\* left of the caret, leaves the job counter, the pending context and the
\* debounce timer as they were and hides the popup.
C5_SuppressedTriggerFrame ==
    [][(ev'.op = "key_other" /\ (readOnly \/ Suppressed)) =>
          /\ jobId' = jobId
          /\ pendingArgs' = pendingArgs
          /\ timerActive' = timerActive
          /\ ~popupVisible']_vars

\* C5: such a run happened on a writable editor with a space left of the caret
\* while a context captured earlier was pending and the timer was armed.
C5_SuppressedWitness ==
    /\ ev.op = "key_other"
    /\ ~readOnly
    /\ CharLeftOfCaret(Doc) = " "
    /\ pendingArgs # <<>>
    /\ timerActive
    /\ jobId > 0
    /\ ~popupVisible

\* C6: a run of the worker takes one request and posts exactly one result,
\* with the request's job id; when the provider raised, the result's
\* candidate list is empty; and the worker is ready for the next request.
C6_WorkerPostsOneResult ==
    [][ev'.op \in {"worker", "worker_raised"} =>
          /\ reqQueue' = Tail(reqQueue)
          /\ Len(resQueue') = Len(resQueue) + 1
          /\ SubSeq(resQueue', 1, Len(resQueue)) = resQueue
          /\ resQueue'[Len(resQueue')].job = Head(reqQueue).job
          /\ (ev'.op = "worker_raised" => resQueue'[Len(resQueue')].names = <<>>)
          /\ (reqQueue' # <<>> => ENABLED (\E o \in ProviderOutcomes : WorkerRequest(o)))]_vars

\* C6: the provider raised, the empty result was posted and the next request
\* is waiting for the worker.
C6_RaisedWitness ==
    /\ ev.op = "worker_raised"
    /\ resQueue # <<>>
    /\ resQueue[Len(resQueue)] = [job |-> ev.job, names |-> <<>>]
    /\ reqQueue # <<>>

\* C7: on receipt of a non-stale result, an empty candidate list hides the
\* popup; a non-empty one makes the popup visible with exactly those
\* candidates when auto-suggest is enabled at that moment, and with
\* auto-suggest disabled the receipt does not show the popup: it leaves it
\* as it was.
C7_NonStaleResult ==
    [][(ev'.op = "result" /\ ev'.job = jobId) =>
          /\ (ev'.names = <<>> => ~popupVisible')
          /\ (ev'.names # <<>> /\ autoSuggest =>
                 popupVisible' /\ popupItems' = ev'.names /\ popupRow' = -1)
          /\ (ev'.names # <<>> /\ ~autoSuggest => PopupUnchanged)]_vars

\* C7: a non-stale, non-empty result was shown in an editor constructed with
\* auto-suggest disabled, the flag having been enabled since.
C7_ShownWitness ==
    /\ ev.op = "result"
    /\ ev.job = jobId
    /\ ev.names # <<>>
    /\ autoSuggest
    /\ ~activatedConnected
    /\ popupVisible
    /\ popupItems = ev.names

----------------------------------------------------------------------------
(* Accepting a candidate.                                                  *)

\* the line with text s put in at column col and nothing taken out
InsertedAt(lineText, col, s) ==
    SubSeq(lineText, 1, col) \o s \o SubSeq(lineText, col + 1, Len(lineText))

\* C8: accepting a candidate (Tab) puts in at the caret exactly the bare
\* name (the candidate up to its first '(') without the typed prefix when the
\* bare name starts with it, the whole bare name otherwise, and nothing when
\* that remainder is empty; afterwards the popup is hidden and the rest of
\* the document is as it was.
C8_AcceptInsertsRemainder ==
    [][ev'.op = "tab" =>
          LET chosen == ev'.names[1]
              bare == BeforeParen(chosen)
              prefix == CurrentPrefix(Doc)
              remainder == IF StartsWith(bare, prefix)
                           THEN SubSeq(bare, Len(prefix) + 1, Len(bare))
                           ELSE bare
          IN /\ lines' = [lines EXCEPT ![caretLine + 1] =
                              InsertedAt(lines[caretLine + 1], caretCol, remainder)]
             /\ ~popupVisible']_vars

----------------------------------------------------------------------------
(* The fold analyzer.                                                      *)

NonBlank(text) == \E i \in 1..Len(text) : ~IsSpace(text[i])

\* the number of whitespace characters before the first other character
LeadingWhitespace(text) ==
    (CHOOSE i \in 1..Len(text) :
        ~IsSpace(text[i]) /\ \A k \in 1..(i - 1) : IsSpace(text[k])) - 1

\* the last character of the text that is not whitespace
LastVisibleChar(text) ==
    text[CHOOSE i \in 1..Len(text) :
            ~IsSpace(text[i]) /\ \A k \in (i + 1)..Len(text) : IsSpace(text[k])]

SetMax(S) == CHOOSE m \in S : \A x \in S : x <= m

\* the non-blank lines after line s (0-based) reached before any non-blank
\* line of equal or lesser indent
DeeperRun(s) ==
    { j \in (s + 1)..(Len(lines) - 1) :
        /\ NonBlank(lines[j + 1])
        /\ \A k \in (s + 1)..j :
              NonBlank(lines[k + 1]) =>
                  LeadingWhitespace(lines[k + 1]) > LeadingWhitespace(lines[s + 1]) }

WellFormedMap(m) ==
    \A k \in DOMAIN m : m[k].end_block > m[k].start_block /\ m[k].start_block = k

\* C9: after any analysis pass over any document every region of the fold
\* map has end_line > start_line and is stored under its own start_line,
\* in the map the indentation pass leaves and in the final map alike.
C9_RegionsSpanLines == WellFormedMap(foldRegions) /\ WellFormedMap(colonRegions)

\* C9: an analysis recorded a region in each pass (the delimiter pass
\* replaced one the indentation pass had recorded) on a document that also
\* has a ':' line with no deeper line after it, for which nothing is recorded.
C9_BothPassesWitness ==
    /\ ev.op = "analyze"
    /\ \E k \in DOMAIN colonRegions : foldRegions[k] # colonRegions[k]
    /\ \E s \in 0..(Len(lines) - 1) :
          IsColonOpener(lines[s + 1]) /\ s \notin DOMAIN foldRegions

\* C10: after an analysis, for every line whose trimmed text ends with ':'
\* and that is followed by at least one non-blank line of strictly greater
\* indent before any non-blank line of equal or lesser indent, the
\* indentation pass has recorded, under that line, an unfolded region ending
\* at the last of those deeper non-blank lines.
C10_IndentRegionEnd ==
    ev.op = "analyze" =>
        \A s \in 0..(Len(lines) - 1) :
            (NonBlank(lines[s + 1]) /\ LastVisibleChar(lines[s + 1]) = ":"
                 /\ DeeperRun(s) # {}) =>
                /\ s \in DOMAIN colonRegions
                /\ colonRegions[s] = [start_block |-> s,
                                      end_block |-> SetMax(DeeperRun(s)),
                                      is_folded |-> FALSE]

\* C10: an analysis recorded a region over a blank line, ending at the
\* deeper line before a non-blank line of equal or lesser indent, and
\* another region whose last deeper line is followed by a blank line.
C10_BlankInsideWitness ==
    /\ ev.op = "analyze"
    /\ \E s \in DOMAIN colonRegions :
          /\ colonRegions[s].end_block = s + 2
          /\ ~NonBlank(lines[s + 2])
          /\ Len(lines) > s + 3
          /\ NonBlank(lines[s + 4])

\* the regions the delimiter pass records on its own
PairedAlone == AnalyzePairedCharBlocks(lines, EmptyMap)

\* C11: after an analysis, at every start line where the indentation pass
\* recorded a region and the delimiter pass records one too, the final map
\* holds the delimiter pass's region: it ends at the line of the closer.
C11_DelimiterRegionWins ==
    ev.op = "analyze" =>
        \A s \in DOMAIN colonRegions \cap DOMAIN PairedAlone :
            foldRegions[s] = PairedAlone[s]

\* C11: an analysis met a ':' line with an opening paren whose closer is on
\* an earlier line than the end of the indented block: the final region at
\* that line ends at the closer.
C11_CloserBeforeIndentEndWitness ==
    /\ ev.op = "analyze"
    /\ \E s \in DOMAIN colonRegions \cap DOMAIN PairedAlone :
          /\ PairedAlone[s].end_block < colonRegions[s].end_block
          /\ foldRegions[s].end_block = PairedAlone[s].end_block
          /\ lines[foldRegions[s].end_block + 1] = <<" ", ")">>

----------------------------------------------------------------------------
(* Toggling folds.                                                         *)

\* the lines a region contains: start_block + 1 .. end_block
Contained(region) == (region.start_block + 1)..region.end_block

\* a step that is a toggle_fold of a key of the fold map
TogglesRegion == ev'.op = "toggle" /\ ev'.job \in DOMAIN foldRegions

\* C12: toggling one region twice in a row gives every line the region
\* contains the visibility it had before the first toggle, and the region the
\* is_folded it had
C12_ToggleTwiceRestores ==
    [][(TogglesRegion /\ ev.op = "toggle" /\ ev.job = ev'.job)
        => /\ foldRegions'[ev.job].is_folded = beforeToggle.regions[ev.job].is_folded
           /\ \A i \in Contained(foldRegions[ev.job]) :
                  visible'[i + 1] = beforeToggle.visible[i + 1]]_vars

\* C13: toggle_fold of a key of the map flips that region's is_folded alone
\* and makes the lines start_block + 1 .. end_block visible exactly when the
\* region is now expanded, every other line keeping its visibility;
\* toggle_fold of any other number changes nothing; the example document has
\* the one region 0 -> 2
C13_ToggleChangesOneRegion ==
    [][/\ TogglesRegion
          => /\ foldRegions' = [foldRegions EXCEPT ![ev'.job].is_folded = ~@]
             /\ \A i \in 0..(Len(lines) - 1) :
                    visible'[i + 1] = IF i \in Contained(foldRegions[ev'.job])
                                      THEN ~foldRegions'[ev'.job].is_folded
                                      ELSE visible[i + 1]
             /\ lines' = lines
       /\ (ev'.op = "toggle" /\ ev'.job \notin DOMAIN foldRegions)
          => UNCHANGED <<docVars, foldVars, visible, cacheVars>>
       /\ (ev'.op = "set_plain_text" /\ lines' = DocExample)
          => /\ DOMAIN foldRegions' = {0}
             /\ foldRegions'[0] = [start_block |-> 0, end_block |-> 2,
                                    is_folded |-> FALSE]]_vars

\* the example document with its region folded: lines 1 and 2 hidden, the
\* start line and the line after the region shown
C13_ExampleFoldedWitness ==
    /\ ev.op = "toggle"
    /\ ev.job = 0
    /\ lines = DocExample
    /\ foldRegions[0].is_folded
    /\ visible = <<TRUE, FALSE, FALSE, TRUE>>

\* C14: expanding an outer region leaves a folded region nested in it folded:
\* is_folded still true, its start line shown, the lines it contains hidden
C14_InnerFoldSurvivesOuterCycle ==
    [][(TogglesRegion /\ foldRegions[ev'.job].is_folded)
        => \A j \in DOMAIN foldRegions :
              (/\ j \in Contained(foldRegions[ev'.job])
               /\ foldRegions[j].end_block <= foldRegions[ev'.job].end_block
               /\ foldRegions[j].is_folded)
              => /\ foldRegions'[j].is_folded
                 /\ visible'[j + 1]
                 /\ \A i \in Contained(foldRegions[j]) : ~visible'[i + 1]]_vars

----------------------------------------------------------------------------
(* The fold timer and the minimap's caches.                                *)

\* C15: every change of the document's content arms the fold timer
C15_ContentChangeArmsFoldTimer ==
    [][lines' # lines => foldTimerActive']_vars

\* C16: a toggle_fold of a key of the map leaves the minimap's visible-line
\* list unset, and the paint after it uses the list of the lines now visible
C16_ToggleUnsetsVisibleList ==
    [][/\ TogglesRegion => cachedVisibleBlocks' = <<>>
       /\ (ev'.op = "paint" /\ ev.op = "toggle" /\ ev.job \in DOMAIN foldRegions)
          => cachedVisibleBlocks' = <<VisibleFrom(visible, 0)>>]_vars

\* C17: a text change empties cached_lines and leaves the visible-line list
\* as it was; a folding change unsets the visible-line list and leaves
\* cached_lines as it was
C17_IndependentInvalidation ==
    [][/\ ev'.op = "set_plain_text"
          => cachedLines' = <<>> /\ cachedVisibleBlocks' = cachedVisibleBlocks
       /\ TogglesRegion
          => cachedVisibleBlocks' = <<>> /\ cachedLines' = cachedLines]_vars

\* C18: a visible-line list that is present is strictly increasing and holds
\* line indices of the current document only
C18_VisibleListValid ==
    cachedVisibleBlocks # <<>>
    => LET vb == cachedVisibleBlocks[1]
       IN /\ \A i \in 1..(Len(vb) - 1) : vb[i] < vb[i + 1]
          /\ \A i \in 1..Len(vb) : vb[i] \in 0..(Len(lines) - 1)

\* the list computed by a paint of a document whose region is folded: the
\* hidden line is left out
C18_FoldedListWitness ==
    /\ ev.op = "paint"
    /\ lines = DocShort
    /\ lastPaint.n = 2
    /\ cachedVisibleBlocks = << <<0, 2>> >>

\* C19: the color cache never holds more entries than its ceiling, and a
\* lookup either leaves the cache, adds its position, or clears the cache
\* and leaves its position as the only entry
C19_ColorCacheAtMostCeiling ==
    /\ Cardinality(colorCache) <= ColorCacheCeiling
    /\ ev.op = "color" => ev.job \in colorCache

\* C20: the scroll_offset of a paint lies in 0 .. max(0, n - L), the index c
\* of the editor's first visible line lies in scroll_offset .. scroll_offset + L,
\* and c is at the window's middle row (L / 2, rounded either way) when the
\* offset was not clamped
C20_CurrentLineInWindow ==
    (ev.op = "paint" /\ lastPaint.n > 0)
    => LET L == LinesInMinimap(lastPaint.height)
           n == lastPaint.n
           c == lastPaint.center
           unclamped == (c - L) \div 2
       IN /\ lastPaint.offset \in 0..Max(0, n - L)
          /\ c \in lastPaint.offset..(lastPaint.offset + L)
          /\ (unclamped >= 0 /\ unclamped <= n - L)
             => c - lastPaint.offset \in {L \div 2, (L + 1) \div 2}

----------------------------------------------------------------------------
(* Job ids in flight.                                                      *)

\* the number of queued requests and undelivered results that carry job id k
Outstanding(k) ==
    Cardinality({i \in 1..Len(reqQueue) : reqQueue[i].job = k})
    + Cardinality({i \in 1..Len(resQueue) : resQueue[i].job = k})

\* C27: the job counter never decreases; a dispatch carries the counter's
\* value, which is larger than every id dispatched before; at most one
\* outstanding request or undelivered result carries the latest-issued id and
\* every other one carries a smaller id
C27_DispatchedIdsIncrease ==
    /\ [](/\ Outstanding(jobId) <= 1
          /\ \A i \in 1..Len(reqQueue) : reqQueue[i].job <= jobId
          /\ \A i \in 1..Len(resQueue) : resQueue[i].job <= jobId)
    /\ [][/\ jobId' >= jobId
          /\ Len(reqQueue') > Len(reqQueue)
             => /\ reqQueue'[Len(reqQueue')].job = jobId
                /\ jobId > lastDispatched
                /\ lastDispatched' = jobId]_vars

\* the latest id is on its way to the worker while the result of an earlier
\* dispatch waits for the UI thread
C27_TwoInFlightWitness ==
    /\ ev.op = "kickoff"
    /\ Outstanding(jobId) = 1
    /\ reqQueue # <<>>
    /\ resQueue # <<>>
    /\ resQueue[1].job < jobId

----------------------------------------------------------------------------
(* Dismissing the popup.                                                   *)

\* C28: a result shows the hidden popup only if a context was captured after
\* the handler that dismissed it (a result that shows the popup is not
\* stale, so it answers the latest capture): a timer armed or a request in
\* flight at the dismissal does not bring the popup back
C28_NoReshowAfterDismissal ==
    [][(ev'.op = "result" /\ ~popupVisible /\ popupVisible') => ~dismissed]_vars

\* C23: while the popup is visible, Escape hides it and leaves the text and
\* the caret alone; Return hides it and replaces the selection by a block
\* separator and nothing else, whatever row is current; focus loss, Tab and
\* the activation of an item each hide it
C23_DismissalsHide ==
    [][popupVisible =>
          /\ KeyEscape => ~popupVisible' /\ UNCHANGED docVars
          /\ KeyReturn
             => /\ ~popupVisible'
                /\ Len(lines') = Len(lines) + 1
                /\ JoinLines(lines') =
                      LET text == JoinLines(lines)
                          start == Len(JoinLines(SubSeq(lines, 1, caretLine)))
                                   + (IF caretLine > 0 THEN 1 ELSE 0)
                          lo == start + Min(caretCol, anchorCol)
                          hi == start + Max(caretCol, anchorCol)
                      IN SubSeq(text, 1, lo) \o <<"\n">> \o SubSeq(text, hi + 1, Len(text))
          /\ FocusOut => ~popupVisible'
          /\ KeyTab => ~popupVisible'
          /\ (\E row \in 0..(Len(popupItems) - 1) : ItemActivated(row))
             => ~popupVisible']_vars

\* Return was pressed with a row selected and a selection in the text: the
\* text is split in two blocks, without the candidate, and the popup is gone
C23_ReturnWithRowWitness ==
    /\ ev.op = "return"
    /\ ev.names # << <<>> >>
    /\ popupRow >= 0
    /\ Len(lines) = 2
    /\ Len(lines[1]) + Len(lines[2]) < 3
    /\ ~popupVisible

----------------------------------------------------------------------------
(* Preferences changed at runtime.                                         *)

\* C24: the accept of a candidate uses the auto-suggest flag as it is now:
\* when the flag is on, activating an item of the popup inserts the part of
\* the item that is not typed yet, as _insert_completion does, also when the
\* flag was off while the editor was constructed
C24_AcceptUsesCurrentFlag ==
    [][\A row \in 0..(Len(popupItems) - 1) :
          (ItemActivated(row) /\ autoSuggest)
          => Doc' = InsertCompletion(Doc, readOnly, [Pipe EXCEPT !.row = row],
                                     popupItems[row + 1]).d]_vars

----------------------------------------------------------------------------
(* The pipeline makes progress.                                            *)

\* C22: once a keystroke has captured a context under job id k and armed the
\* debounce timer, then, unless a later keystroke captures a newer context,
\* the request with id k is dispatched and its result reaches
\* _on_completion_results and passes the staleness test
C22_LatestRequestAnswered ==
    \A k \in 1..MaxJob :
        (timerActive /\ pendingArgs # <<>> /\ jobId = k)
        ~> \/ jobId > k
           \/ /\ lastDispatched = k
              /\ \E i \in 1..Len(applied) : applied[i] = k

\* the result of the request dispatched last arrived while the text still
\* ends in the prefix it was computed for, and was not stale
C22_AnsweredWitness ==
    /\ ev.op = "result"
    /\ ev.job = jobId
    /\ lastDispatched = jobId
    /\ applied # <<>>
    /\ applied[Len(applied)] = jobId
    /\ ~readOnly
    /\ lines[1] = <<"a">>
    /\ caretCol = 1
    /\ ~timerActive

----------------------------------------------------------------------------
(* Re-analysis and the folded state.                                       *)

\* C25: the map analyze_fold_regions rebuilds holds a region folded exactly
\* when the map before the pass held a folded region with the same start and
\* end line; every other region of the rebuilt map is expanded
C25_FoldedCarriedOver ==
    [][ev'.op = "set_plain_text"
       => \A s \in DOMAIN foldRegions' :
             foldRegions'[s].is_folded
             = /\ s \in DOMAIN foldRegions
               /\ foldRegions[s].start_block = foldRegions'[s].start_block
               /\ foldRegions[s].end_block = foldRegions'[s].end_block
               /\ foldRegions[s].is_folded]_vars

\* the regions of the fold map that are folded and contain line i
FoldedCover(i) ==
    {s \in DOMAIN foldRegions :
        foldRegions[s].is_folded /\ i \in Contained(foldRegions[s])}

\* C26: a line is hidden exactly when a folded region of the current map
\* contains it
C26_HiddenIffFolded ==
    \A i \in 0..(Len(lines) - 1) : ~visible[i + 1] <=> FoldedCover(i) # {}

----------------------------------------------------------------------------
(* Closers that match nothing.                                             *)

\* line i of the document contains the character ch
LineHas(i, ch) == \E j \in 1..Len(lines[i + 1]) : lines[i + 1][j] = ch

\* the closing parentheses minus the opening ones on the lines s + 1 .. e
ParenBalance(s, e) ==
    Cardinality({j \in (s + 1)..e : LineHas(j, ")")})
    - Cardinality({j \in (s + 1)..e : LineHas(j, "(")})

\* the lines after s whose closing parenthesis closes the opener of line s,
\* counting parentheses alone: the first one that brings the balance to 1
ParenMatches(s) ==
    {e \in (s + 1)..(Len(lines) - 1) :
        /\ LineHas(e, ")")
        /\ ParenBalance(s, e) = 1
        /\ \A m \in (s + 1)..(e - 1) : ParenBalance(s, m) < 1}

\* C29: the paired pass ends on every document, and on a document whose
\* only openers are parentheses, one to a line, it pairs every opener with
\* the closing parenthesis that balances it, as if the closers met with an
\* empty stack and the closing brackets, which match no opener, were not
\* there: they record nothing and take no opener off the stack
C29_UnmatchedCloserIgnored ==
    ev.op = "analyze" =>
        /\ DOMAIN PairedAlone
           = {s \in 0..(Len(lines) - 1) : LineHas(s, "(") /\ ParenMatches(s) # {}}
        /\ \A s \in DOMAIN PairedAlone :
              /\ PairedAlone[s].start_block = s
              /\ PairedAlone[s].end_block \in ParenMatches(s)

\* a closing parenthesis met with an empty stack, then an opener, a closing
\* bracket that does not match it, and the closing parenthesis that does
C29_MismatchThenMatchWitness ==
    /\ ev.op = "analyze"
    /\ lines = << <<")">>, <<"(", ":">>, <<"]">>, <<")">> >>
    /\ DOMAIN foldRegions = {1}
    /\ foldRegions[1].end_block = 3

----------------------------------------------------------------------------
(* Clicking the minimap.                                                   *)

\* C21: a press or a drag on the minimap at any row, above, inside or below
\* the widget, leaves the text, the caret, the fold map and the visibility of
\* the lines alone; if the minimap knows of no visible line the scrollbar
\* keeps its value, otherwise the row resolves to an index of the visible-line
\* list and the scrollbar gets a value between its minimum 0 and its maximum
C21_ClickOnlyScrolls ==
    [][ev'.op = "click"
       => /\ UNCHANGED <<docVars, foldVars, visible>>
          /\ LET n == Len(cachedVisibleBlocks'[1])
             IN IF n = 0
                THEN lastClick'.value = lastClick.value
                ELSE /\ lastClick'.idx \in 0..(n - 1)
                     /\ lastClick'.value \in 0..lastClick'.maximum]_vars

\* a drag ended below the widget while the second line was folded away: it
\* resolved to the last visible line and scrolled the editor off its minimum
C21_BelowWidgetWitness ==
    /\ ev.op = "click"
    /\ ev.job > MaxMapHeight
    /\ \E i \in 1..Len(visible) : ~visible[i]
    /\ lastClick.n > 1
    /\ lastClick.idx = lastClick.n - 1
    /\ lastClick.value > 0

\* the indices of the visible-line list the last paintEvent drew a strip for:
\* range(start_idx, end_idx) until y_offset reaches the widget's height
PaintedIndices ==
    {i \in lastPaint.offset
           ..(Min(lastPaint.n, lastPaint.offset + LinesInMinimap(lastPaint.height) + 1) - 1) :
        (i - lastPaint.offset) * LineHeight < lastPaint.height}

\* the pixel rows of the strip the last paintEvent drew for index i
StripRows(i) ==
    ((i - lastPaint.offset) * LineHeight)..((i - lastPaint.offset) * LineHeight + LineHeight - 1)

\* C30: a click on the minimap as it was just painted (same height, same
\* first visible block, same folds, scroll_sensitivity 1.0) at a row of the
\* strip painted for index i of the visible-line list resolves to index i
C30_ClickInvertsPaint ==
    [][(ev.op = "paint" /\ ev'.op = "click" /\ lastPaint.n > 0)
       => \A i \in PaintedIndices :
             ev'.job \in StripRows(i) => lastClick'.idx = i]_vars

\* the minimap was painted from its second line on and the upper row of the
\* second strip, the last row of the widget, was clicked: the click resolved
\* to the third line
C30_SecondStripWitness ==
    /\ ev.op = "click"
    /\ lastPaint.n > 2
    /\ lastPaint.offset = 1
    /\ ev.job = LineHeight
    /\ ev.job = lastPaint.height - 1
    /\ lastClick.idx = 2

====
